---- MODULE Spec2Model ----
(***************************************************************************)
(* Mokemon (src/mokemon.py): mouse and keyboard monitor.                   *)
(*                                                                         *)
(* The model follows class App: the idle callback on_idle (one call = one  *)
(* step), the two icon-window signal handlers, check_resize, setpixbuf,    *)
(* has_active_modifiers and Modifier.set.                                  *)
(*                                                                         *)
(* Time is counted in units of 0.05 s, so that timeout (0.25 s), btnrepeat *)
(* (0.2 s) and the wheel offset (0.1 s) are the integers 5, 4 and 2.       *)
(*                                                                         *)
(* Numbers the program holds as floats are held as exact rationals <<n,d>> *)
(* in lowest terms with d > 0.  All values the filter produces within the  *)
(* bounds below are dyadic with numerators far below 2^53, so the float    *)
(* arithmetic of the program is exact on them.  The unit vector (rx, ry)   *)
(* = (cx/r, cy/r) is irrational in general; it is held as the pair of      *)
(* coprime integers with the same direction, i.e. up to the positive       *)
(* factor the program divides by.  Every use the program makes of rx and   *)
(* ry (rx == 0, rx >= 0, ry >= 0, ry/rx, rx/ry) is independent of that     *)
(* factor.                                                                 *)
(***************************************************************************)
EXTENDS Integers, Sequences, FiniteSets, TLC

----------------------------------------------------------------------------
(* Bounds of the model *)

\* last instant (in 0.05 s units) at which on_idle is called
MaxTime == 7

\* longest delay between two consecutive calls of on_idle
MaxStep == 1

\* number of EV_MOV events the event source delivers
MaxMoves == 3

----------------------------------------------------------------------------
(* Program constants, src/mokemon.py lines 488-491 and 444 *)

\* App.timeout = 0.25
timeout == 5

\* App.btnrepeat = 0.2
btnrepeat == 4

\* App.distance = 10
distance == 10

\* the offset 0.1 of [t, t+0.1]
WheelOffset == 2

\* denominator of the low-pass filter, and its weight 63
FilterDen == 64

FilterNum == 63

----------------------------------------------------------------------------
(* Exact rational arithmetic *)

Abs(n) == IF n < 0 THEN -n ELSE n

RECURSIVE Gcd(_, _)
Gcd(a, b) == IF b = 0 THEN a ELSE Gcd(b, a % b)

\* the rational n/d (d # 0) in lowest terms with a positive denominator
Rat(n, d) ==
  LET g == Gcd(Abs(n), Abs(d))
      s == IF d < 0 THEN -1 ELSE 1
  IN  << (s * n) \div g, (s * d) \div g >>

RInt(n) == << n, 1 >>

Lcm(a, b) == (a \div Gcd(a, b)) * b

RAdd(p, q) ==
  LET l == Lcm(p[2], q[2])
  IN  Rat(p[1] * (l \div p[2]) + q[1] * (l \div q[2]), l)

RNeg(p) == << -p[1], p[2] >>

RSub(p, q) == RAdd(p, RNeg(q))

RMul(p, q) ==
  LET g1 == Gcd(Abs(p[1]), q[2])
      g2 == Gcd(Abs(q[1]), p[2])
  IN  Rat((p[1] \div g1) * (q[1] \div g2), (p[2] \div g2) * (q[2] \div g1))

\* p / q, defined for q # 0 only (the program raises ZeroDivisionError otherwise)
RDiv(p, q) == RMul(p, Rat(q[2], q[1]))

RAbs(p) == << Abs(p[1]), p[2] >>

RLeq(p, q) == p[1] * q[2] <= q[1] * p[2]

RIsZero(p) == p[1] = 0

----------------------------------------------------------------------------
(* The widgets and the events *)

\* keys of self.modifiers
Modifiers == {"ALT", "ALTGR", "CONTROL", "SHIFT", "CAPSLOCK"}

\* iteration order of the dictionary self.modifiers (insertion order)
ModOrder == << "ALT", "ALTGR", "CONTROL", "SHIFT", "CAPSLOCK" >>

\* key codes the event source delivers in this model
KeyCodes == {"KEY_ALT_L", "KEY_ISO_LEVEL3_SHIFT", "KEY_CONTROL_L", "KEY_SHIFT_L",
             "KEY_CAPS_LOCK", "KEY_A", "KEY_ESCAPE", "KEY_F1"}

\* codes of the mouse buttons (delivered with type EV_KEY)
ButtonCodes == {"BTN_LEFT", "BTN_MIDDLE", "BTN_RIGHT"}

\* code.startswith(prefix), for the codes above and the prefixes on_idle and
\* setpixbuf test
StartsWith(code, prefix) ==
  << code, prefix >> \in
    { << "KEY_ALT_L", "KEY_ALT" >>, << "KEY_CONTROL_L", "KEY_CONTROL" >>,
      << "KEY_SHIFT_L", "KEY_SHIFT" >>, << "KEY_CAPS_LOCK", "KEY_CAPS_LOCK" >>,
      << "KEY_ESCAPE", "KEY_ESCAPE" >>,
      << "BTN_LEFT", "BTN_LEFT" >>, << "BTN_MIDDLE", "BTN_MIDDLE" >>,
      << "BTN_RIGHT", "BTN_RIGHT" >>,
      << "REL_WHEEL", "REL_WHEEL" >> }
    \cup { << c, "KEY_" >> : c \in KeyCodes }

\* len(code)==5 and code[4]>="A" and code[4]<="Z"
IsLetterCode(code) == code \in {"KEY_A"}

\* code[4] of a letter code
LetterOf(code) == IF code = "KEY_A" THEN "A" ELSE "?"

\* keys of the dictionary self.pixbufs that a modelled code can start with
\* (the other entries of the catalogue match no code of KeyCodes)
pixbufs == {"KEY_ESCAPE", "KEY_END", "KEY_UP"}

\* icon-window buttons
IconButtons == {1, 3}

\* pointer positions the event source delivers with EV_MOV
XS == {0, 1, 2, 64}

YS == {0, 1}

Positions == XS \X YS

\* pointer position the query at startup returns (line 231)
StartPositions == { << 64, 1 >> }

\* pointer positions delivered while the icon window is used
IconPositions == { << 64, 0 >>, << 2, 1 >> }

\* sizes (w, h) self.splash.get_size() returns
Sizes == { << 4, 2 >>, << 3, 3 >> }

\* pointer offsets inside the icon window, ev.window.get_device_position
DragOffsets == { << 3, 1 >> }

\* an input event, and the absence of one (listener.next() returning None)
Event(type, code, value, pos) ==
  [type |-> type, code |-> code, value |-> value, pos |-> pos,
   size |-> << 0, 0 >>]

\* a motion event, with the size of the splash window when it is handled
MotionEvent(pos, size) ==
  [Event("EV_MOV", "", 0, pos) EXCEPT !.size = size]

NoEvent == Event("none", "", 0, << 0, 0 >>)

----------------------------------------------------------------------------
VARIABLES
  now,           \* time.time() at the latest call of on_idle
  raised,        \* exception on_idle has raised ("" if none): GLib drops the source
  exited,        \* exit(0) has been called
  mousepos,      \* self.mousepos
  dragstate,     \* self.dragstate
  dragxy,        \* self.dragxy (<<>> before the first icon press)
  iconpos,       \* position given to iconwindow.move (<<>> before the first)
  cx, cy,        \* self.cx, self.cy
  rx, ry,        \* direction of (self.rx, self.ry), coprime integers
  splashpos,     \* position given to splash.move (<<>> before the first)
  btntimes,      \* self.btntimes
  splash_mouse,  \* image of self.splash_mouse
  keytime,       \* self.keytime
  splash_key,    \* self.splash_key: [visible, pixbuf]
  pixbuf,        \* self.pixbuf ("" before the first assignment)
  visible,       \* m.props.visible of each modifier image
  tohide,        \* m.tohide of each modifier image
  show_all_keys, \* App.show_all_keys
  out,           \* commands issued by the latest handler call
  ev,            \* event handled by the latest handler call
  held,          \* mouse buttons the user holds down
  iconheld,      \* buttons held down on the icon window
  nmoves,        \* EV_MOV events delivered so far
  hist           \* history variables of the properties

vars == << now, raised, exited, mousepos, dragstate, dragxy, iconpos, cx, cy,
           rx, ry, splashpos, btntimes, splash_mouse, keytime, splash_key,
           pixbuf, visible, tohide, show_all_keys, out, ev, held, iconheld,
           nmoves, hist >>

----------------------------------------------------------------------------
(* Commands issued to the windowing layer *)

ShowMouse(p1) == << "show_mouse", p1 >>

HideMouse == << "hide_mouse", "mouse_off" >>

ShowKey(p) == << "show_key", p >>

HideKey == << "hide_key", "" >>

ShowModifier(k) == << "show", k >>

HideModifier(k) == << "hide", k >>

MoveSplash(pos) == << "move_splash", pos >>

MoveIcon(pos) == << "move_icon", pos >>

Exit == << "exit", "" >>

Info == << "info", "" >>

Sleep == << "sleep", "" >>

\* the commands of kind c in the sequence o
Issued(o, c) == { i \in 1..Len(o) : o[i][1] = c }

----------------------------------------------------------------------------
(* check_resize *)

\* self.ry / self.rx, for rx # 0
Slope(vx, vy) == Rat(vy, vx)

\* self.rx == 0 or abs(self.ry / self.rx) <= 1
MostlyHorizontal(vx, vy) == vx = 0 \/ RLeq(RAbs(Slope(vx, vy)), RInt(1))

\* CASE 1: x-w-off, y-h/2-(h/2+off)*(ry/rx)
Case1(x, y, w, h, off, vx, vy) ==
  << RInt(x - w - off),
     RSub(RSub(RInt(y), Rat(h, 2)),
          RMul(RAdd(Rat(h, 2), RInt(off)), Slope(vx, vy))) >>

\* CASE 2 with the sign of off slipped: x-off
Case2_SignSlip(x, y, w, h, off, vx, vy) ==
  << RInt(x - off),
     RAdd(RSub(RInt(y), Rat(h, 2)),
          RMul(RAdd(Rat(h, 2), RInt(off)), Slope(vx, vy))) >>

\* CASE 2: x+off, y-h/2+(h/2+off)*(ry/rx)
Case2(x, y, w, h, off, vx, vy) ==
  << RInt(x + off),
     RAdd(RSub(RInt(y), Rat(h, 2)),
          RMul(RAdd(Rat(h, 2), RInt(off)), Slope(vx, vy))) >>

\* CASE 3: x-w/2-(w/2+off)*(rx/ry), y-h-off
Case3(x, y, w, h, off, vx, vy) ==
  << RSub(RSub(RInt(x), Rat(w, 2)),
          RMul(RAdd(Rat(w, 2), RInt(off)), Slope(vy, vx))),
     RInt(y - h - off) >>

\* CASE 4 with the sign of CASE 3 kept: x-w/2-(w/2+off)*(rx/ry)
Case4_SignOfCase3(x, y, w, h, off, vx, vy) ==
  << RSub(RSub(RInt(x), Rat(w, 2)),
          RMul(RAdd(Rat(w, 2), RInt(off)), Slope(vy, vx))),
     RInt(y + off) >>

\* CASE 4: x-w/2+(w/2+off)*(rx/ry), y+off
Case4(x, y, w, h, off, vx, vy) ==
  << RAdd(RSub(RInt(x), Rat(w, 2)),
          RMul(RAdd(Rat(w, 2), RInt(off)), Slope(vy, vx))),
     RInt(y + off) >>

\* the first branch of check_resize (lines 291-296)
AnchorH(x, y, w, h, off, vx, vy) ==
  IF vx >= 0 THEN Case1(x, y, w, h, off, vx, vy)
             ELSE Case2(x, y, w, h, off, vx, vy)

\* the second branch of check_resize (lines 298-303)
AnchorV(x, y, w, h, off, vx, vy) ==
  IF vy >= 0 THEN Case3(x, y, w, h, off, vx, vy)
             ELSE Case4(x, y, w, h, off, vx, vy)

\* check_resize with self.mousepos = pos, self.splash.get_size() = size and
\* (self.rx, self.ry) of direction (vx, vy): the position given to
\* self.splash.move, or the exception raised in the place of the move
check_resize(pos, size, vx, vy) ==
  LET x == pos[1]
      y == pos[2]
      w == size[1]
      h == size[2]
      off == distance
  IN  IF MostlyHorizontal(vx, vy)
        THEN IF vx = 0
               THEN [raised |-> "ZeroDivisionError", pos |-> << >>]
               ELSE [raised |-> "", pos |-> AnchorH(x, y, w, h, off, vx, vy)]
        ELSE [raised |-> "", pos |-> AnchorV(x, y, w, h, off, vx, vy)]

----------------------------------------------------------------------------
(* The motion filter of on_idle, lines 375-382 *)

\* (x-ox)*1.0/64 + self.cx*63.0/64
LowPass(delta, c) ==
  RAdd(RDiv(RInt(delta), RInt(FilterDen)),
       RDiv(RMul(c, RInt(FilterNum)), RInt(FilterDen)))

\* math.sqrt(cx*cx + cy*cy) == 0
NormIsZero(ncx, ncy) == RIsZero(ncx) /\ RIsZero(ncy)

\* direction of (cx/r, cy/r) for r > 0: the coprime integer pair parallel to
\* (cx, cy)
UnitVector(ncx, ncy) ==
  LET l == Lcm(ncx[2], ncy[2])
      a == ncx[1] * (l \div ncx[2])
      b == ncy[1] * (l \div ncy[2])
      g == Gcd(Abs(a), Abs(b))
  IN  << a \div g, b \div g >>

\* one, in the fixed-point arithmetic that stands for the floats of lines
\* 380-382 where their magnitude matters
FixedScale == 1024

\* the vector (a, b) # (0, 0) brought to a magnitude between FixedScale / 2
\* and 2 * FixedScale, as the exponent of a float does
Mantissa(a, b) ==
  LET m == IF Abs(a) > Abs(b) THEN Abs(a) ELSE Abs(b)
  IN  IF m >= FixedScale
        THEN << a \div (m \div FixedScale), b \div (m \div FixedScale) >>
        ELSE << a * (FixedScale \div m), b * (FixedScale \div m) >>

\* math.sqrt(n), rounded down
ISqrt(n) == CHOOSE r \in 0..(3 * FixedScale) : r * r <= n /\ n < (r + 1) * (r + 1)

\* a norm without the square root
Norm_Manhattan(a, b) == Abs(a) + Abs(b)

\* r = math.sqrt( self.cx*self.cx + self.cy*self.cy )
Norm(a, b) == ISqrt(a * a + b * b)

\* (self.cx/r, self.cy/r) in units of 1/FixedScale, for a vector parallel to
\* (a, b) # (0, 0)
Ratios(a, b) ==
  LET v == Mantissa(a, b)
      r == Norm(v[1], v[2])
  IN  << (v[1] * FixedScale) \div r, (v[2] * FixedScale) \div r >>

----------------------------------------------------------------------------
(* Groups of variables *)

dragv == << dragstate, dragxy, iconpos >>

filtv == << cx, cy, rx, ry, splashpos >>

btnv == << btntimes, splash_mouse >>

keyv == << keytime, splash_key, pixbuf >>

modv == << visible, tohide >>

----------------------------------------------------------------------------
(* App.__init__ *)

ProgInit ==
  /\ raised = ""
  /\ exited = FALSE
  /\ mousepos \in StartPositions
  /\ dragstate = 0
  /\ dragxy = << >>
  /\ iconpos = << >>
  /\ cx = RInt(1)
  /\ cy = RInt(0)
  /\ rx = 1
  /\ ry = 0
  /\ splashpos = << >>
  /\ btntimes = << >>
  /\ splash_mouse = "mouse_off"
  /\ keytime = 0
  /\ splash_key = [visible |-> FALSE, pixbuf |-> ""]
  /\ pixbuf = ""
  /\ visible = [k \in Modifiers |-> FALSE]
  /\ tohide = [k \in Modifiers |-> FALSE]

----------------------------------------------------------------------------
(* has_active_modifiers, Modifier.set, setpixbuf *)

has_active_modifiers == \E k \in Modifiers : visible[k]

\* Modifier.set(s) on self.modifiers[k]
Modifier_set(k, s) ==
  IF s # 0
    THEN /\ visible' = [visible EXCEPT ![k] = TRUE]
         /\ out' = << ShowModifier(k) >>
         /\ UNCHANGED tohide
    ELSE /\ tohide' = [tohide EXCEPT ![k] = TRUE]
         /\ out' = << >>
         /\ UNCHANGED visible

\* the modifier the chain of tests at lines 390-399 selects ("" if none)
ModifierOf(code) ==
  IF StartsWith(code, "KEY_ALT") THEN "ALT"
  ELSE IF code = "KEY_ISO_LEVEL3_SHIFT" THEN "ALTGR"
  ELSE IF StartsWith(code, "KEY_CONTROL") THEN "CONTROL"
  ELSE IF StartsWith(code, "KEY_SHIFT") THEN "SHIFT"
  ELSE IF StartsWith(code, "KEY_CAPS_LOCK") THEN "CAPSLOCK"
  ELSE ""

\* the test of line 313 with `and' in the place of `or'
LetterAllowed_And == show_all_keys /\ has_active_modifiers

\* the test of line 313
LetterAllowed == show_all_keys \/ has_active_modifiers

\* setpixbuf(code, doit): the value returned and the value of self.pixbuf
\* after the call
setpixbuf(code, doit) ==
  IF StartsWith(code, "KEY_") /\ LetterAllowed /\ IsLetterCode(code)
    THEN [ret |-> TRUE,
          pixbuf |-> IF doit # 0 THEN LetterOf(code) ELSE pixbuf]
    ELSE IF \E k \in pixbufs : StartsWith(code, k)
           THEN [ret |-> TRUE,
                 pixbuf |-> CHOOSE k \in pixbufs : StartsWith(code, k)]
           ELSE [ret |-> FALSE, pixbuf |-> pixbuf]

----------------------------------------------------------------------------
(* on_idle: EV_MOV, lines 356-384 *)

\* a drag test that is true as long as an anchor has been recorded
Dragging_Anchored(ds) == ds > 0 \/ dragxy # << >>

\* a drag that begins at the second motion event only
Dragging_Strict(ds) == ds > 1

\* the test of line 363
Dragging(ds) == ds > 0

ev_mov(pos, size) ==
  LET x == pos[1]
      y == pos[2]
      ox == mousepos[1]
      oy == mousepos[2]
  IN  /\ mousepos' = pos
      /\ UNCHANGED << btnv, keyv, modv >>
      /\ IF Dragging(dragstate)
           THEN /\ dragstate' = dragstate + 1
                /\ iconpos' = << x - dragxy[1], y - dragxy[2] >>
                /\ out' = << MoveIcon(iconpos') >>
                /\ UNCHANGED << dragxy, filtv, raised >>
           ELSE LET ncx == LowPass(x - ox, cx)
                    ncy == LowPass(y - oy, cy)
                IN  /\ cx' = ncx
                    /\ cy' = ncy
                    /\ UNCHANGED dragv
                    /\ IF NormIsZero(ncx, ncy)
                         THEN \* self.cx/r raises
                              /\ raised' = "ZeroDivisionError"
                              /\ out' = << >>
                              /\ UNCHANGED << rx, ry, splashpos >>
                         ELSE LET u == UnitVector(ncx, ncy)
                                  res == check_resize(pos, size, u[1], u[2])
                              IN  /\ rx' = u[1]
                                  /\ ry' = u[2]
                                  /\ raised' = res.raised
                                  /\ IF res.raised = ""
                                       THEN /\ splashpos' = res.pos
                                            /\ out' = << MoveSplash(res.pos) >>
                                       ELSE /\ out' = << >>
                                            /\ UNCHANGED splashpos

----------------------------------------------------------------------------
(* on_idle: EV_KEY, lines 386-437 *)

\* LeftClick with the third click timed from btntimes[0]
LeftClick_FirstPress(bt, t) ==
  IF Len(bt) = 2 /\ t - bt[1] < btnrepeat THEN 2
  ELSE IF Len(bt) = 4 /\ t - bt[1] < btnrepeat THEN 3
  ELSE 1

\* which click of a sequence a press of the left button at time t is
\* (lines 413-421)
LeftClick(bt, t) ==
  IF Len(bt) = 2 /\ t - bt[1] < btnrepeat THEN 2
  ELSE IF Len(bt) = 4 /\ t - bt[3] < btnrepeat THEN 3
  ELSE 1

LeftPixbuf(n) ==
  IF n = 2 THEN "mouseleft2" ELSE IF n = 3 THEN "mouseleft3" ELSE "mouseleft1"

\* lines 411-423
btn_left(value, t) ==
  IF value = 1
    THEN LET n == LeftClick(btntimes, t)
         IN  /\ btntimes' = IF n = 1 THEN << t >> ELSE Append(btntimes, t)
             /\ splash_mouse' = LeftPixbuf(n)
             /\ out' = << ShowMouse(LeftPixbuf(n)) >>
    ELSE /\ btntimes' = Append(btntimes, t)
         /\ out' = << >>
         /\ UNCHANGED splash_mouse

\* lines 424-435: the middle and the right button
btn_other(p1, value, t) ==
  IF value = 1
    THEN /\ btntimes' = << t >>
         /\ splash_mouse' = p1
         /\ out' = << ShowMouse(p1) >>
    ELSE /\ btntimes' = Append(btntimes, t)
         /\ out' = << >>
         /\ UNCHANGED splash_mouse

ev_key(code, value, t) ==
  /\ UNCHANGED << mousepos, dragv, filtv, raised >>
  /\ IF ModifierOf(code) # ""
       THEN /\ Modifier_set(ModifierOf(code), value)
            /\ UNCHANGED << btnv, keyv >>
       ELSE LET sp == setpixbuf(code, value)
            IN  /\ pixbuf' = sp.pixbuf
                /\ UNCHANGED modv
                /\ IF sp.ret
                     THEN /\ UNCHANGED btnv
                          /\ IF value = 1
                               THEN /\ splash_key' = [visible |-> TRUE,
                                                      pixbuf |-> sp.pixbuf]
                                    /\ keytime' = t
                                    /\ out' = << ShowKey(sp.pixbuf) >>
                               ELSE /\ out' = << >>
                                    /\ UNCHANGED << splash_key, keytime >>
                     ELSE /\ UNCHANGED << splash_key, keytime >>
                          /\ IF StartsWith(code, "BTN_LEFT")
                               THEN btn_left(value, t)
                             ELSE IF StartsWith(code, "BTN_MIDDLE")
                               THEN btn_other("mousemiddle1", value, t)
                             ELSE IF StartsWith(code, "BTN_RIGHT")
                               THEN btn_other("mouseright1", value, t)
                             ELSE /\ out' = << Info >>
                                  /\ UNCHANGED btnv

----------------------------------------------------------------------------
(* on_idle: EV_REL, lines 441-448 *)

ev_rel(code, value, t) ==
  /\ UNCHANGED << mousepos, dragv, filtv, raised, keyv, modv >>
  /\ IF StartsWith(code, "REL_WHEEL") /\ value \in {1, -1}
       THEN /\ btntimes' = << t, t + WheelOffset >>
            /\ splash_mouse' = IF value = 1 THEN "mousefwd" ELSE "mousebwd"
            /\ out' = << ShowMouse(splash_mouse') >>
       ELSE /\ out' = << >>
            /\ UNCHANGED btnv

----------------------------------------------------------------------------
(* on_idle: no event, lines 456-482 *)

\* the test of lines 458-460 timed from btntimes[0]
MouseExpired_FirstPress(bt, t) ==
  /\ Len(bt) % 2 = 0
  /\ Len(bt) > 0
  /\ t - bt[1] > timeout

\* the test of lines 458-460
MouseExpired(bt, t) ==
  /\ Len(bt) % 2 = 0
  /\ Len(bt) > 0
  /\ t - bt[Len(bt) - 1] > timeout

\* the test of line 468
\* KeyExpired with the operands of the difference exchanged
KeyExpired_Backwards(kt, t) == kt > 0 /\ kt - t > timeout

KeyExpired(kt, t) == kt > 0 /\ t - kt > timeout

\* the sweep of the modifiers without the test of line 474
ModifiersSwept_Always(kt) == TRUE

\* the test of line 474, on the value of self.keytime then
ModifiersSwept(kt) == kt = 0

\* a loop that hides the badge and keeps the request
TohideAfterSweep_Kept(k) == tohide[k]

\* m.tohide of the modifier k after the loop at lines 475-479 (line 478)
TohideAfterSweep(k) == FALSE

\* the hide commands of the loop at lines 475-479
HideModifiers ==
  LET hides[i \in 0..Len(ModOrder)] ==
        IF i = 0 THEN << >>
        ELSE IF tohide[ModOrder[i]]
               THEN Append(hides[i - 1], HideModifier(ModOrder[i]))
               ELSE hides[i - 1]
  IN  hides[Len(ModOrder)]

sweep(t) ==
  /\ UNCHANGED << mousepos, dragv, filtv, raised, pixbuf >>
  /\ IF MouseExpired(btntimes, t)
       THEN /\ splash_mouse' = "mouse_off"
            /\ btntimes' = << >>
            /\ out' = << HideMouse >>
            /\ UNCHANGED << keytime, splash_key, modv >>
       ELSE LET expired == KeyExpired(keytime, t)
                kt == IF expired THEN 0 ELSE keytime
                o1 == IF expired THEN << HideKey >> ELSE << >>
            IN  /\ UNCHANGED btnv
                /\ keytime' = kt
                /\ splash_key' = IF expired
                                   THEN [splash_key EXCEPT !.visible = FALSE]
                                   ELSE splash_key
                /\ IF ModifiersSwept(kt)
                     THEN /\ visible' = [k \in Modifiers |->
                                           visible[k] /\ ~tohide[k]]
                          /\ tohide' = [k \in Modifiers |-> TohideAfterSweep(k)]
                          /\ out' = o1 \o HideModifiers \o << Sleep >>
                     ELSE /\ out' = o1 \o << Sleep >>
                          /\ UNCHANGED modv

----------------------------------------------------------------------------
(* on_idle *)

\* one call of on_idle at time t, listener.next() returning e (or None) and
\* self.splash.get_size() returning size
on_idle(e, t, size) ==
  /\ raised = ""
  /\ ~exited
  /\ now' = t
  /\ ev' = e
  /\ UNCHANGED << exited, show_all_keys >>
  /\ CASE e.type = "EV_MOV" -> ev_mov(e.pos, size)
       [] e.type = "EV_KEY" -> ev_key(e.code, e.value, t)
       [] e.type = "EV_REL" -> ev_rel(e.code, e.value, t)
       [] e.type = "none" -> sweep(t)
       [] OTHER -> /\ out' = << Info >>
                   /\ UNCHANGED << mousepos, dragv, filtv, raised, btnv, keyv,
                                   modv >>

----------------------------------------------------------------------------
(* The signal handlers of the icon window, lines 256-270 *)

on_iconbtnpress(button, xy) ==
  /\ ~exited
  /\ ev' = Event("icon-press", "", button, xy)
  /\ out' = << >>
  /\ IF button = 1
       THEN /\ dragxy' = xy
            /\ dragstate' = 1
       ELSE UNCHANGED << dragxy, dragstate >>
  /\ UNCHANGED << now, raised, exited, mousepos, iconpos, filtv, btnv, keyv,
                  modv, show_all_keys >>

\* ev.button == 1 and self.dragstate < 2
QuitGesture(button, ds) == button = 1 /\ ds < 2

on_iconbtnrelease(button) ==
  /\ ~exited
  /\ ev' = Event("icon-release", "", button, << 0, 0 >>)
  /\ IF QuitGesture(button, dragstate)
       THEN /\ exited' = TRUE
            /\ out' = << Exit >>
            /\ UNCHANGED dragstate
       ELSE /\ dragstate' = 0
            /\ out' = << >>
            /\ UNCHANGED exited
  /\ UNCHANGED << now, raised, mousepos, dragxy, iconpos, filtv, btnv, keyv,
                  modv, show_all_keys >>

----------------------------------------------------------------------------
(* History variables: what the properties below need to remember *)

HistInit ==
  [lastLP |-> 0,          \* time of the latest press of the left button
   lastLPclick |-> 0,     \* 1, 2, 3: the glyph that press was shown with
   sinceLP |-> "dirty",   \* mouse events since: "none", "released" (its own
                          \* release and nothing else), "dirty"
   btnsrc |-> << >>,      \* the button that recorded each entry of btntimes
   lastKeyShow |-> 0,     \* time of the latest show of the key badge
   lastMouseShow |-> 0,   \* time of the latest show of the mouse glyph
   moves |-> 0,           \* EV_MOV calls since the latest button-1 icon press
   swept |-> {},          \* elements hidden by a sweep since the latest event
   moddown |-> {},        \* modifiers whose latest key event is a press
   quiet |-> FALSE]       \* the event source delivers no further event

\* the glyph shown by the commands o ("" if none)
ShownMouse(o) ==
  IF Issued(o, "show_mouse") = {} THEN ""
  ELSE o[CHOOSE i \in Issued(o, "show_mouse") : TRUE][2]

ClickOf(p1) ==
  IF p1 = "mouseleft2" THEN 2 ELSE IF p1 = "mouseleft3" THEN 3 ELSE 1

\* the history after a call of on_idle at time t for a mouse button or wheel
\* event recorded by src ("L", "M", "R", "W")
HistMouse(src, value, t) ==
  LET shown == ShownMouse(out')
      press == shown # ""
  IN  [hist EXCEPT
         !.lastLP = IF src = "L" /\ press THEN t ELSE @,
         !.lastLPclick = IF src = "L" /\ press THEN ClickOf(shown) ELSE @,
         !.sinceLP = IF src = "L" /\ press THEN "none"
                     ELSE IF src = "L" /\ @ = "none" THEN "released"
                     ELSE "dirty",
         !.btnsrc = IF src = "W" THEN << "W", "W" >>
                    ELSE IF press /\ Len(btntimes') = 1 THEN << src >>
                    ELSE Append(@, src),
         !.lastMouseShow = IF press THEN t ELSE @,
         !.swept = {}]

HistKey(code, value, t) ==
  [hist EXCEPT
     !.lastKeyShow = IF Issued(out', "show_key") # {} THEN t ELSE @,
     !.moddown = IF ModifierOf(code) = "" THEN @
                 ELSE IF value = 1 THEN @ \cup {ModifierOf(code)}
                 ELSE @ \ {ModifierOf(code)},
     !.swept = {}]

\* the elements the commands o hide
Hidden(o) ==
  (IF Issued(o, "hide_mouse") # {} THEN {"mouse"} ELSE {})
    \cup (IF Issued(o, "hide_key") # {} THEN {"key"} ELSE {})
    \cup { o[i][2] : i \in Issued(o, "hide") }

HistSweep ==
  [hist EXCEPT !.btnsrc = IF btntimes' = << >> THEN << >> ELSE @,
               !.swept = @ \cup Hidden(out')]

HistMotion == [hist EXCEPT !.moves = @ + 1, !.swept = {}]

HistUnknown == [hist EXCEPT !.swept = {}]

HistQuiet == [hist EXCEPT !.quiet = TRUE]

HistIconPress(button) == [hist EXCEPT !.moves = IF button = 1 THEN 0 ELSE @]

----------------------------------------------------------------------------
(* The environment: the event source, the clock and the user *)

\* the times at which the next call of on_idle can happen
Times(maxstep) == { t \in now..(now + maxstep) : t <= MaxTime }

SrcOf(code) ==
  IF code = "BTN_LEFT" THEN "L" ELSE IF code = "BTN_MIDDLE" THEN "M" ELSE "R"

Init ==
  /\ ProgInit
  /\ show_all_keys = TRUE
  /\ now = 1
  /\ out = << >>
  /\ ev = NoEvent
  /\ held = {}
  /\ iconheld = {}
  /\ nmoves = 0
  /\ hist = HistInit

\* the pointer moves
Motion(positions, maxstep) ==
  \E pos \in positions, size \in Sizes, t \in Times(maxstep) :
    /\ nmoves < MaxMoves
    /\ ~hist.quiet
    /\ on_idle(MotionEvent(pos, size), t, size)
    /\ nmoves' = nmoves + 1
    /\ hist' = HistMotion
    /\ UNCHANGED << held, iconheld >>

\* a key goes down or up, handled at one of the given times
KeyAt(codes, values, times) ==
  \E code \in codes, value \in values, t \in times :
    /\ ~hist.quiet
    /\ on_idle(Event("EV_KEY", code, value, << 0, 0 >>), t, << 0, 0 >>)
    /\ hist' = HistKey(code, value, t)
    /\ UNCHANGED << held, iconheld, nmoves >>

\* a key goes down or up
Key(codes, values) == KeyAt(codes, values, Times(MaxStep))

\* a mouse button goes down, or a button that is down goes up, handled at
\* one of the given times
ButtonAt(codes, times) ==
  \E code \in codes, value \in {0, 1}, t \in times :
    /\ (value = 1) = (code \notin held)
    /\ ~hist.quiet
    /\ on_idle(Event("EV_KEY", code, value, << 0, 0 >>), t, << 0, 0 >>)
    /\ held' = IF value = 1 THEN held \cup {code} ELSE held \ {code}
    /\ hist' = HistMouse(SrcOf(code), value, t)
    /\ UNCHANGED << iconheld, nmoves >>

\* a mouse button goes down, or a button that is down goes up
Button(codes) == ButtonAt(codes, Times(MaxStep))

\* the wheel turns by one notch, handled at one of the given times
WheelAt(values, times) ==
  \E value \in values, t \in times :
    /\ ~hist.quiet
    /\ on_idle(Event("EV_REL", "REL_WHEEL", value, << 0, 0 >>), t, << 0, 0 >>)
    /\ hist' = HistMouse("W", value, t)
    /\ UNCHANGED << held, iconheld, nmoves >>

\* the wheel turns by one notch
Wheel(values) == WheelAt(values, Times(MaxStep))

\* an event of a type on_idle does not know
Unknown ==
  \E t \in Times(MaxStep) :
    /\ ~hist.quiet
    /\ on_idle(Event("EV_ABS", "", 0, << 0, 0 >>), t, << 0, 0 >>)
    /\ hist' = HistUnknown
    /\ UNCHANGED << held, iconheld, nmoves >>

\* on_idle finds no event, at one of the given times
IdleAt(times) ==
  \E t \in times :
    /\ on_idle(NoEvent, t, << 0, 0 >>)
    /\ hist' = HistSweep
    /\ UNCHANGED << held, iconheld, nmoves >>

\* on_idle finds no event
Idle == IdleAt(Times(MaxStep))

\* on_idle finds no event, later than its latest call
IdleLater == IdleAt(Times(MaxStep) \ {now})

\* the event source stops delivering events
Quiesce ==
  /\ ~hist.quiet
  /\ hist' = HistQuiet
  /\ UNCHANGED << now, raised, exited, mousepos, dragv, filtv, btnv, keyv,
                  modv, show_all_keys, out, ev, held, iconheld, nmoves >>

\* one of the given buttons goes down on the icon window
IconPressOf(buttons) ==
  \E button \in buttons \ iconheld, xy \in DragOffsets :
    /\ on_iconbtnpress(button, xy)
    /\ iconheld' = iconheld \cup {button}
    /\ hist' = HistIconPress(button)
    /\ UNCHANGED << held, nmoves >>

\* a button goes down on the icon window
IconPress == IconPressOf(IconButtons)

\* a button that went down on the icon window goes up
IconRelease ==
  \E button \in iconheld :
    /\ on_iconbtnrelease(button)
    /\ iconheld' = iconheld \ {button}
    /\ UNCHANGED << held, nmoves, hist >>

----------------------------------------------------------------------------
(* Specifications *)

\* the whole program: every event the source can deliver, the idle sweep and
\* the icon window.  The properties are checked under the specifications
\* below, each of which lets the environment deliver a part of these events.
Next ==
  \/ Motion(Positions, MaxStep)
  \/ Key(KeyCodes, {0, 1})
  \/ Button(ButtonCodes)
  \/ Wheel({1, -1})
  \/ Unknown
  \/ Idle
  \/ IconPress
  \/ IconRelease

Spec == Init /\ [][Next]_vars

\* the start with either value of the class attribute show_all_keys, which the
\* start-up code sets (line 488)
InitQuiet ==
  /\ ProgInit
  /\ show_all_keys \in BOOLEAN
  /\ now = 1
  /\ out = << >>
  /\ ev = NoEvent
  /\ held = {}
  /\ iconheld = {}
  /\ nmoves = 0
  /\ hist = HistInit

\* pointer motion: the filter and the placement of the splash window
NextMotion == Motion(Positions, 0)

SpecMotion == Init /\ [][NextMotion]_vars

\* the icon window
NextIcon == Motion(IconPositions, 0) \/ IconPress \/ IconRelease

SpecIcon == Init /\ [][NextIcon]_vars

\* the keyboard
NextKeys ==
  \/ Key({"KEY_SHIFT_L", "KEY_CONTROL_L", "KEY_A", "KEY_ESCAPE", "KEY_F1"},
         {0, 1})
  \/ Idle

SpecKeys == InitQuiet /\ [][NextKeys]_vars

\* the mouse buttons and the wheel
NextMouse == Button({"BTN_LEFT", "BTN_MIDDLE"}) \/ Wheel({1, -1}) \/ Idle

SpecMouse == Init /\ [][NextMouse]_vars

\* keyboard and mouse together
NextInput ==
  \/ Key({"KEY_ESCAPE"}, {1})
  \/ Button({"BTN_LEFT"})
  \/ Wheel({1})
  \/ Idle

SpecInput == Init /\ [][NextInput]_vars

\* a modifier, an ordinary key and the wheel, with ticks that find no event
NextSweep ==
  \/ Key({"KEY_SHIFT_L", "KEY_ESCAPE"}, {0, 1})
  \/ Wheel({1})
  \/ Idle

SpecSweep == Init /\ [][NextSweep]_vars

\* Ticks keep being scheduled (the idle callback returns True and stays
\* installed) and time advances from one call to a later one
TicksGoOn == WF_vars(Idle) /\ WF_vars(IdleLater)

\* the left button and the wheel, until the event source falls silent
NextMouseLive ==
  \/ Button({"BTN_LEFT"})
  \/ Wheel({1})
  \/ Idle
  \/ Quiesce

SpecMouseLive == Init /\ [][NextMouseLive]_vars /\ TicksGoOn

\* a modifier, an ordinary key and the wheel, until the event source falls
\* silent
NextKeysLive ==
  \/ Key({"KEY_SHIFT_L", "KEY_ESCAPE"}, {0, 1})
  \/ Wheel({1})
  \/ Idle
  \/ Quiesce

SpecKeysLive == Init /\ [][NextKeysLive]_vars /\ TicksGoOn

\* the icon window, pointer motion, a key, a button and the wheel together;
\* events are handled at the time of the latest call, and a call that finds
\* no event comes at that time or after every timeout has run out
NextDrag ==
  \/ Motion({<< 64, 1 >>}, 0)
  \/ IconPressOf({1})
  \/ IconRelease
  \/ KeyAt({"KEY_ESCAPE"}, {1}, {now})
  \/ ButtonAt({"BTN_MIDDLE"}, {now})
  \/ WheelAt({1}, {now})
  \/ IdleAt({now, MaxTime})

SpecDrag == Init /\ [][NextDrag]_vars

----------------------------------------------------------------------------
(* Properties *)

\* the latest call handled a press (value 1) or release (0) of button code
ButtonEvent(e, code, value) ==
  e.type = "EV_KEY" /\ e.code = code /\ e.value = value

\* C1: classification of left clicks (timeout > btnrepeat).  A left press on
\* an empty history is shown as a single click.  A left press that follows
\* a left press shown as the n-th click (n = 1, 2), with only the release of
\* that press between the two and less than btnrepeat after it, is shown as
\* the (n+1)-th click.  A left press that follows a completed triple click
\* is shown as a single click and makes the history that press alone.
C1_LeftClickClassification ==
  [][ ButtonEvent(ev', "BTN_LEFT", 1) =>
        LET t == now'
            shown == ShownMouse(out')
            follows(n) == /\ hist.lastLPclick = n
                          /\ hist.sinceLP = "released"
            within == t - hist.lastLP < btnrepeat
        IN  /\ shown = splash_mouse'
            /\ btntimes = << >> => shown = "mouseleft1"
            /\ follows(1) /\ within => shown = "mouseleft2"
            /\ follows(2) /\ within => shown = "mouseleft3"
            /\ follows(3) => shown = "mouseleft1" /\ btntimes' = << t >>
    ]_vars

\* a triple click made of left presses and releases only has just been shown,
\* less than btnrepeat after the double click before it
C1_Witness ==
  /\ ButtonEvent(ev, "BTN_LEFT", 1)
  /\ splash_mouse = "mouseleft3"
  /\ hist.lastLPclick = 3
  /\ hist.btnsrc = << "L", "L", "L", "L", "L" >>
  /\ btntimes[5] > btntimes[1]

\* C2: a modifier badge is hidden only by a call of on_idle that finds no
\* event and that leaves no key badge active (keytime = 0, key badge hidden)
C2_ModifierPersistence ==
  [][ \A k \in Modifiers :
        visible[k] /\ ~visible'[k] =>
          /\ ev'.type = "none"
          /\ keytime' = 0
          /\ ~splash_key'.visible
    ]_vars

\* Shift was released while the key badge is shown, a sweep has run since,
\* and the Shift badge is still visible
C2_Witness ==
  /\ ev.type = "none"
  /\ visible["SHIFT"]
  /\ tohide["SHIFT"]
  /\ keytime > 0
  /\ splash_key.visible
  /\ splash_key.pixbuf = "A"

\* C3: a press of a letter key shows the key badge exactly once if "show all
\* keys" is set or some modifier badge is visible, and otherwise shows
\* nothing and leaves the key badge and its timer as they were
C3_LetterKeyBadge ==
  [][ (ev'.type = "EV_KEY" /\ ev'.code = "KEY_A" /\ ev'.value = 1) =>
        IF show_all_keys \/ (\E k \in Modifiers : visible[k])
          THEN /\ Cardinality(Issued(out', "show_key")) = 1
               /\ out' = << ShowKey("A") >>
               /\ splash_key' = [visible |-> TRUE, pixbuf |-> "A"]
               /\ keytime' = now'
          ELSE /\ Issued(out', "show_key") = {}
               /\ splash_key' = splash_key
               /\ keytime' = keytime
    ]_vars

\* the letter was pressed with "show all keys" off and a modifier badge
\* visible, and its badge is shown
C3_Witness ==
  /\ ev.type = "EV_KEY" /\ ev.code = "KEY_A" /\ ev.value = 1
  /\ ~show_all_keys
  /\ \E k \in Modifiers : visible[k]
  /\ out = << ShowKey("A") >>
  /\ splash_key.visible

\* C4: a button-1 release on the icon issues Terminate exactly when no
\* motion event was handled since the button-1 press before it
C4_QuitGesture ==
  (ev.type = "icon-release" /\ ev.value = 1) =>
    ((Issued(out, "exit") # {}) <=> (hist.moves = 0))

\* C5: a motion event that makes cx = cy = 0 completes normally
C5_ZeroVectorGuard ==
  (ev.type = "EV_MOV" /\ RIsZero(cx) /\ RIsZero(cy)) => raised = ""

\* C6: a motion event handled with dragstate = 0 that leaves (cx, cy)
\* nonzero, so that a unit vector is produced, moves the splash window
\* exactly once and does not fail
C6_PlacementTotal ==
  (ev.type = "EV_MOV" /\ dragstate = 0 /\ ~(RIsZero(cx) /\ RIsZero(cy))) =>
    /\ raised = ""
    /\ Cardinality(Issued(out, "move_splash")) = 1

\* C7: every position check_resize gives the splash window puts the
\* rectangle of size (w, h) on the side of the pointer opposite to the
\* dominant direction of motion, at distance exactly `distance', so that the
\* pointer is outside the rectangle
C7_AnchorClearOfPointer ==
  (ev.type = "EV_MOV" /\ Issued(out, "move_splash") # {}) =>
    LET x == RInt(mousepos[1])
        y == RInt(mousepos[2])
        w == RInt(ev.size[1])
        h == RInt(ev.size[2])
        off == RInt(distance)
        left == splashpos[1]
        top == splashpos[2]
        right == RAdd(left, w)
        bottom == RAdd(top, h)
        horizontal == rx # 0 /\ Abs(ry) <= Abs(rx)
    IN  /\ out = << MoveSplash(splashpos) >>
        /\ distance > 0
        /\ (horizontal /\ rx >= 0) => right = RSub(x, off)
        /\ (horizontal /\ rx < 0) => left = RAdd(x, off)
        /\ (~horizontal /\ ry >= 0) => bottom = RSub(y, off)
        /\ (~horizontal /\ ry < 0) => top = RAdd(y, off)
        /\ ~ (/\ RLeq(left, x) /\ RLeq(x, right)
              /\ RLeq(top, y) /\ RLeq(y, bottom))

\* the splash window was placed below the pointer (CASE 4)
C7_Witness ==
  /\ ev.type = "EV_MOV"
  /\ Issued(out, "move_splash") # {}
  /\ rx # 0
  /\ Abs(ry) > Abs(rx)
  /\ ry < 0
  /\ splashpos[2] = RInt(mousepos[2] + distance)

\* C8: where |ry/rx| = 1 the two branches of check_resize give the same
\* position, for the pointer position and every size of the splash window
C8_PlacementContinuity ==
  (rx # 0 /\ Abs(ry) = Abs(rx)) =>
    \A size \in Sizes :
      AnchorH(mousepos[1], mousepos[2], size[1], size[2], distance, rx, ry)
        = AnchorV(mousepos[1], mousepos[2], size[1], size[2], distance, rx, ry)

\* a motion event has left the unit vector on the boundary rx = ry < 0
C8_Witness ==
  /\ ev.type = "EV_MOV"
  /\ rx = -1
  /\ ry = -1
  /\ splashpos = << RInt(mousepos[1] + distance), RInt(mousepos[2] + distance) >>

\* C9: a left press is shown as a double or triple click only when every
\* entry of the click history was recorded by the left button
C9_OnlyLeftFormsSequence ==
  (ButtonEvent(ev, "BTN_LEFT", 1)
     /\ splash_mouse \in {"mouseleft2", "mouseleft3"}) =>
    \A i \in 1..Len(hist.btnsrc) : hist.btnsrc[i] = "L"

\* C10: the key badge is hidden only by a call more than timeout after the
\* latest show of the key badge, and the mouse glyph only by a call more than
\* timeout after the latest show of the mouse glyph
C10_TimersNeverEarly ==
  [][ /\ (splash_key.visible /\ ~splash_key'.visible) =>
            now' - hist.lastKeyShow > timeout
      /\ (splash_mouse # "mouse_off" /\ splash_mouse' = "mouse_off") =>
            now' - hist.lastMouseShow > timeout
    ]_vars

\* the key badge has just been hidden while a mouse glyph shown later, after
\* a double click, is still up
C10_Witness ==
  /\ ev.type = "none"
  /\ Issued(out, "hide_key") # {}
  /\ splash_mouse = "mouseleft2"
  /\ Len(btntimes) = 4

\* the state of the element x of hist.swept is left as it is
ElementUnchanged(x) ==
  IF x = "mouse" THEN UNCHANGED btnv
  ELSE IF x = "key" THEN keytime' = keytime /\ splash_key' = splash_key
  ELSE visible'[x] = visible[x] /\ tohide'[x] = tohide[x]

\* C11 as stated: once a sweep has hidden the mouse glyph, the key badge or
\* a modifier badge, a further call of on_idle that finds no event, with no
\* event in between, issues no hide for that element and changes no state.
C11_SweepChangesNoState ==
  [][ (ev'.type = "none" /\ hist.swept # {}) =>
         /\ Hidden(out') \cap hist.swept = {}
         /\ UNCHANGED << mousepos, dragv, filtv, btnv, keyv, modv >>
    ]_vars

\* C11 amended: once a sweep has hidden the mouse glyph, the key badge or a
\* modifier badge, a further call of on_idle that finds no event, with no
\* event in between, issues no hide for that element and leaves the state of
\* that element unchanged; another element may still expire in such a call.
C11_TimeoutIdempotence ==
  [][ ev'.type = "none" =>
         \A x \in hist.swept :
            x \notin Hidden(out') /\ ElementUnchanged(x)
    ]_vars

\* a call that finds no event hides the key badge and the Shift badge after
\* an earlier call has hidden the mouse glyph, with no event in between
C11_Witness ==
  /\ ev.type = "none"
  /\ hist.swept = {"mouse", "key", "SHIFT"}
  /\ Hidden(out) = {"key", "SHIFT"}

\* the tolerance of C12 is 1/EpsilonDen
EpsilonDen == 100

\* rx*rx + ry*ry - 1 in units of 1/FixedScale^2
NormError ==
  LET u == Ratios(rx, ry)
  IN  u[1] * u[1] + u[2] * u[2] - FixedScale * FixedScale

\* C12: after a motion event handled with dragstate = 0 that leaves (cx, cy)
\* nonzero, (rx, ry) is parallel to (cx, cy) and rx*rx + ry*ry is within
\* 1/EpsilonDen of 1.
C12_UnitVector ==
  (ev.type = "EV_MOV" /\ dragstate = 0 /\ ~NormIsZero(cx, cy)) =>
    /\ << rx, ry >> = UnitVector(cx, cy)
    /\ Abs(NormError) * EpsilonDen <= FixedScale * FixedScale

\* a motion event has left an oblique vector, whose norm is not an integer
C12_Witness ==
  /\ ev.type = "EV_MOV"
  /\ dragstate = 0
  /\ rx # 0 /\ ry # 0 /\ Abs(rx) # Abs(ry)
  /\ NormError # 0

\* C13: the length of btntimes is odd exactly when some mouse button is
\* held down, whatever buttons, wheel ticks and sweeps came before.
C13_ClickHistoryParity ==
  (Len(btntimes) % 2 = 1) <=> (held # {})

\* C14: btntimes holds at most 6 timestamps in every reachable state.
C14_ClickHistoryBound ==
  Len(btntimes) <= 6

\* C15: a call of on_idle that finds no event evaluates the mouse, the key
\* and the modifier expiry in that same call and then sleeps: when it
\* returns nothing that was due at its time t is left, and the pause has
\* been made.
C15_CompleteSweep ==
  (ev.type = "none" /\ out # << >>) =>
    /\ ~MouseExpired(btntimes, now)
    /\ ~KeyExpired(keytime, now)
    /\ ModifiersSwept(keytime) => \A k \in Modifiers : ~tohide[k]
    /\ Issued(out, "sleep") # {}

\* C16: a modifier whose most recent key event is a press has its badge
\* visible, also when that press follows a release no sweep has handled yet.
C16_HeldModifierVisible ==
  \A k \in hist.moddown : visible[k]

\* the event source has fallen silent while the clock of the model can still
\* run past the timeout
Silent == hist.quiet /\ now + timeout < MaxTime

\* C17: once every button that was pressed is released and no further event
\* is delivered, the mouse glyph is eventually hidden and btntimes emptied,
\* whatever events came before.
C17_MouseGlyphLiveness ==
  (Silent /\ held = {}) ~> (splash_mouse = "mouse_off" /\ btntimes = << >>)

\* C18: once no further event is delivered, a key badge that is shown is
\* eventually hidden with keytime back to 0, and every modifier with a
\* pending hide is eventually hidden, also when a mouse glyph expires in the
\* same period.
C18_KeyModifierLiveness ==
  /\ Silent ~> (keytime = 0 /\ ~splash_key.visible)
  /\ \A k \in Modifiers :
       (Silent /\ tohide[k]) ~> (~tohide[k] /\ ~visible[k])

\* after the last event, one sweep has hidden the mouse glyph and a later
\* one the key badge and the Shift badge
C18_Witness ==
  /\ hist.quiet
  /\ ev.type = "none"
  /\ "mouse" \in hist.swept
  /\ Hidden(out) = {"key", "SHIFT"}

\* C19: a motion event handled while dragstate > 0 records the pointer
\* position, adds one to dragstate and moves the icon window to the pointer
\* position minus the drag anchor; it leaves (cx, cy), (rx, ry), the position
\* of the splash window, the click history and every visibility unchanged.
C19_MotionWhileDragging ==
  [][ (ev'.type = "EV_MOV" /\ dragstate > 0) =>
         /\ mousepos' = ev'.pos
         /\ dragstate' = dragstate + 1
         /\ iconpos' = << ev'.pos[1] - dragxy[1], ev'.pos[2] - dragxy[2] >>
         /\ out' = << MoveIcon(iconpos') >>
         /\ UNCHANGED << dragxy, filtv, btnv, keyv, modv, raised >>
    ]_vars

\* the icon window has followed the pointer for two motion events, after
\* the splash window had been placed by an earlier one
C19_Witness ==
  /\ ev.type = "EV_MOV"
  /\ dragstate = 3
  /\ iconpos = << ev.pos[1] - dragxy[1], ev.pos[2] - dragxy[2] >>
  /\ out = << MoveIcon(iconpos) >>
  /\ splashpos # << >>

\* C20: dragstate changes only in on_iconbtnpress, in on_iconbtnrelease and
\* in a motion event; key, button and wheel events and the timeout sweep
\* leave it unchanged, and a motion event changes it only when it is
\* already greater than 0.
C20_DragStateFrame ==
  [][ dragstate' # dragstate =>
         /\ ev'.type \in {"icon-press", "icon-release", "EV_MOV"}
         /\ ev'.type = "EV_MOV" => dragstate > 0
    ]_vars

\* during a drag, after a key and a wheel event, a sweep hides the mouse
\* glyph and dragstate is as the motion event left it
C20_Witness ==
  /\ ev.type = "none"
  /\ dragstate = 2
  /\ "mouse" \in Hidden(out)
  /\ keytime > 0

====
